---- MODULE Spec2Model ----
(***************************************************************************)
(* Notification service: the Notification entity (status state machine,    *)
(* retry counter), the per-channel health and circuit-breaker records, the *)
(* priority queues and the delivery orchestrator (send_notification,       *)
(* send_emergency_notification, handle_channel_delivery, handle_retry) of  *)
(* services/notification_service.py, run as coroutines on one event loop:  *)
(* an action is one run of a coroutine from a resume point to its next     *)
(* suspension point.                                                       *)
(***************************************************************************)
EXTENDS Integers, Sequences, FiniteSets, TLC

\* ------------------------------------------------------------------ enums

NotificationStatus == {"PENDING", "SENT", "DELIVERED", "FAILED", "RETRYING"}

NotificationChannel == {"EMAIL", "PUSH", "SMS"}

EMERGENCY_ALERT == "EMERGENCY_ALERT"

\* EMERGENCY_ALERT and one representative of the nine other business types.
NotificationType == {EMERGENCY_ALERT, "WALK_SCHEDULED"}

\* A type or channel field left unset (Python's None).
None == "None"

\* recipient_id: empty (falsy), an e-mail address, or an E.164 phone number.
Recipients == {"", "email", "phone"}

\* The sms_handler the service is constructed with: a collaborator that only
\* honours the deliver contract, or the repository's SMSHandler.
SmsHandlers == {"contract", "SMSHandler"}

\* ------------------------------------------------------------------ bounds

\* Notification objects and concurrently running top-level calls.
Notifs == {"n1", "n2"}

Calls == {"a", "b"}

\* A send is accepted while its queue holds fewer than MaxQueue entries.
MaxQueue == 2

\* Direct increment_retry calls stop at this retry_count.
MaxDirectRetry == 4

\* ------------------------------------------------------------------ state

VARIABLES
    notif,       \* Notifs -> the Notification objects
    health,      \* _channel_health: channel -> [state, failures]
    breakers,    \* _channel_breakers: channel -> [is_open, threshold]
    queues,      \* _priority_queues: channel -> [normal, emergency]
    smsHandler,  \* which sms_handler the service was constructed with
    calls,       \* Calls -> the running (or last returned) top-level call
    last         \* the last direct call on a Notification and its outcome

vars == <<notif, health, breakers, queues, smsHandler, calls, last>>

\* ------------------------------------------------- Notification (entity)

\* Notification.__init__ giving every channel the EMAIL maximum.
MaxRetriesOf_Default(channel) == 3

\* Notification.__init__ allowing one retry more on every channel.
MaxRetriesOf_PlusOne(channel) ==
    IF channel = "EMAIL" THEN 4
    ELSE IF channel = "PUSH" THEN 3
    ELSE 2

\* Notification.__init__: max_retries by channel.
MaxRetriesOf(channel) ==
    IF channel = "EMAIL" THEN 3
    ELSE IF channel = "PUSH" THEN 2
    ELSE 1

\* Notification.__init__: the state of a new notification.
NewNotification(recipient, type, channel) ==
    [ recipient   |-> recipient,
      type        |-> type,
      channel     |-> channel,
      status      |-> "PENDING",
      retry_count |-> 0,
      max_retries |-> MaxRetriesOf(channel),
      backoff     |-> 0 ]

\* update_status with a transition to the current status accepted.
allowed_transitions_Idempotent(status) ==
    CASE status = "PENDING"   -> {"PENDING", "SENT", "FAILED", "RETRYING"}
      [] status = "SENT"      -> {"SENT", "DELIVERED", "FAILED", "RETRYING"}
      [] status = "DELIVERED" -> {"DELIVERED"}
      [] status = "FAILED"    -> {"FAILED", "RETRYING"}
      [] status = "RETRYING"  -> {"RETRYING", "SENT", "FAILED"}

\* update_status: the table of allowed successors.
allowed_transitions(status) ==
    CASE status = "PENDING"   -> {"SENT", "FAILED", "RETRYING"}
      [] status = "SENT"      -> {"DELIVERED", "FAILED", "RETRYING"}
      [] status = "DELIVERED" -> {}
      [] status = "FAILED"    -> {"RETRYING"}
      [] status = "RETRYING"  -> {"SENT", "FAILED"}

\* update_status that lets a FAILED transition through from any status.
update_status_FailedFromAny(nr, new_status) ==
    IF new_status # "FAILED" /\ new_status \notin allowed_transitions(nr.status)
    THEN [raised |-> TRUE, n |-> nr]
    ELSE [raised |-> FALSE, n |-> [nr EXCEPT !.status = new_status]]

\* update_status: raises ValueError (raised) or sets the status.
update_status(nr, new_status) ==
    IF new_status \notin allowed_transitions(nr.status)
    THEN [raised |-> TRUE, n |-> nr]
    ELSE [raised |-> FALSE, n |-> [nr EXCEPT !.status = new_status]]

\* increment_retry that records the backoff but loses the increment.
increment_retry_NoCount(nr) ==
    [ n       |-> [nr EXCEPT !.backoff = 5 * (2 ^ nr.retry_count)],
      reached |-> nr.retry_count >= nr.max_retries ]

\* increment_retry reporting the maximum only once it is exceeded.
increment_retry_Exceeded(nr) ==
    LET rc == nr.retry_count + 1
    IN  [ n       |-> [nr EXCEPT !.retry_count = rc,
                                 !.backoff = 5 * (2 ^ (rc - 1))],
          reached |-> rc > nr.max_retries ]

\* increment_retry counting two for one retry.
increment_retry_ByTwo(nr) ==
    LET rc == nr.retry_count + 2
    IN  [ n       |-> [nr EXCEPT !.retry_count = rc,
                                 !.backoff = 5 * (2 ^ (rc - 1))],
          reached |-> rc >= nr.max_retries ]

\* increment_retry: counts, records the backoff in metadata, reports whether
\* max_retries is reached.
increment_retry(nr) ==
    LET rc == nr.retry_count + 1
    IN  [ n       |-> [nr EXCEPT !.retry_count = rc,
                                 !.backoff = 5 * (2 ^ (rc - 1))],
          reached |-> rc >= nr.max_retries ]

\* ------------------------------------------------- health and breakers

\* NotificationService.__init__: every channel UP with no failures.
InitHealth == [c \in NotificationChannel |-> [state |-> "UP", failures |-> 0]]

\* NotificationService.__init__: every breaker closed, threshold 5.
InitBreakers ==
    [c \in NotificationChannel |-> [is_open |-> FALSE, threshold |-> 5]]

\* NotificationService.__init__: empty queues.
InitQueues ==
    [c \in NotificationChannel |-> [normal |-> <<>>, emergency |-> <<>>]]

\* A machine state M is [n, h, b]: the notification of the running call, the
\* health records and the breaker records.

\* The gate without its breaker check.
Refused_HealthOnly(M, c) == M.h[c].state # "UP"

\* handle_channel_delivery, steps 1-2: the gate.
Refused(M, c) == M.h[c].state # "UP" \/ M.b[c].is_open

\* The except branch that logs the exception and counts nothing.
OnException_NotCounted(M, c) == M

\* The except branch counting the failure without looking at the threshold.
OnException_NeverOpens(M, c) == [M EXCEPT !.h[c].failures = @ + 1]

\* handle_channel_delivery, the except branch: count the failure, open the
\* breaker at the threshold.
OnException(M, c) ==
    LET f == M.h[c].failures + 1
    IN  [M EXCEPT !.h[c].failures = f,
                  !.b[c].is_open = IF f >= M.b[c].threshold THEN TRUE ELSE @]

\* The failure branch marking the channel DOWN when it opens the breaker.
OnFailure_MarksDown(M, c) ==
    LET f == M.h[c].failures + 1
    IN  [M EXCEPT !.h[c].failures = f,
                  !.h[c].state = IF f >= M.b[c].threshold THEN "DOWN" ELSE @,
                  !.b[c].is_open = IF f >= M.b[c].threshold THEN TRUE ELSE @]

\* The failure branch opening the breaker only above the threshold.
OnFailure_AboveThreshold(M, c) ==
    LET f == M.h[c].failures + 1
    IN  [M EXCEPT !.h[c].failures = f,
                  !.b[c].is_open = IF f > M.b[c].threshold THEN TRUE ELSE @]

\* handle_channel_delivery, the else branch with success false.
OnFailure(M, c) ==
    LET f == M.h[c].failures + 1
    IN  [M EXCEPT !.h[c].failures = f,
                  !.b[c].is_open = IF f >= M.b[c].threshold THEN TRUE ELSE @]

\* The success branch also closing the breaker.
OnSuccess_ClosesBreaker(M, c) ==
    [M EXCEPT !.h[c].failures = 0, !.b[c].is_open = FALSE]

\* handle_channel_delivery, the else branch with success true.
OnSuccess(M, c) == [M EXCEPT !.h[c].failures = 0]

\* Step 7 with a try around each transition: DELIVERED is still tried after
\* SENT was rejected.
MarkDelivered_SeparateTry(nr) ==
    LET r1 == update_status(nr, "SENT")
        r2 == update_status(r1.n, "DELIVERED")
    IN  r2.n

\* Step 7 stopping after the SENT transition.
MarkDelivered_SentOnly(nr) ==
    LET r1 == update_status(nr, "SENT")
    IN  IF r1.raised THEN nr ELSE r1.n

\* handle_channel_delivery, step 7: SENT then DELIVERED, a ValueError of
\* either transition swallowed.
MarkDelivered(nr) ==
    LET r1 == update_status(nr, "SENT")
    IN  IF r1.raised THEN nr
        ELSE LET r2 == update_status(r1.n, "DELIVERED")
             IN  IF r2.raised THEN r1.n ELSE r2.n

\* A failed attempt that marks the notification RETRYING.
FinishDelivery_MarksRetrying(M, c, outcome) ==
    IF outcome = "raise" THEN [M |-> OnException(M, c), success |-> FALSE]
    ELSE IF outcome = "ok"
    THEN [M |-> [OnSuccess(M, c) EXCEPT !.n = MarkDelivered(M.n)],
          success |-> TRUE]
    ELSE [M |-> [OnFailure(M, c) EXCEPT !.n = update_status(M.n, "RETRYING").n],
          success |-> FALSE]

\* A success that resets the failure counter of every channel.
FinishDelivery_ResetsAll(M, c, outcome) ==
    IF outcome = "raise" THEN [M |-> OnException(M, c), success |-> FALSE]
    ELSE IF outcome = "ok"
    THEN [M |-> [M EXCEPT !.h = [d \in NotificationChannel |->
                                    [M.h[d] EXCEPT !.failures = 0]],
                          !.n = MarkDelivered(M.n)],
          success |-> TRUE]
    ELSE [M |-> OnFailure(M, c), success |-> FALSE]

\* handle_channel_delivery from the collaborator's outcome to the return:
\* outcome is "ok" (success), "fail" (any other result) or "raise".
FinishDelivery(M, c, outcome) ==
    IF outcome = "raise" THEN [M |-> OnException(M, c), success |-> FALSE]
    ELSE IF outcome = "ok"
    THEN [M |-> [OnSuccess(M, c) EXCEPT !.n = MarkDelivered(M.n)],
          success |-> TRUE]
    ELSE [M |-> OnFailure(M, c), success |-> FALSE]

\* ------------------------------------------------- SMSHandler (collaborator)

\* SMSConfig.max_retries (default) bounds SMSHandler.send's loop.
SmsConfigMaxRetries == 3

\* SMSHandler._is_valid_phone on recipient_id.
IsValidPhone(nr) == nr.recipient = "phone"

\* SMSHandler.__init__: len(_retry_strategies[...]), emergency or normal.
SmsIntervalCount(nr) == IF nr.type = EMERGENCY_ALERT THEN 3 ELSE 2

\* SMSHandler.send from its start to its first suspension (sleep(0)): an
\* invalid phone number marks the notification FAILED and returns False
\* ("fail"), or raises the transition's ValueError ("raise").
SmsBegin(nr) ==
    IF ~IsValidPhone(nr)
    THEN LET u == update_status(nr, "FAILED")
         IN  IF u.raised THEN [n |-> nr, res |-> "raise"]
             ELSE [n |-> u.n, res |-> "fail"]
    ELSE [n |-> nr, res |-> "yield"]

\* SMSHandler.send, one iteration of the loop with attempt_counter = ac and
\* the outcome of the Twilio call ("ok" or "raise"): returns True ("ok"),
\* returns False ("fail"), raises out of send ("raise") or sleeps before the
\* next iteration ("sleep").
SmsIteration(nr, ac, twilio) ==
    LET sent == IF twilio = "ok" THEN update_status(nr, "SENT")
                ELSE [raised |-> TRUE, n |-> nr]
        dlv  == IF sent.raised THEN sent ELSE update_status(sent.n, "DELIVERED")
    IN  IF ~dlv.raised THEN [n |-> dlv.n, res |-> "ok"]
        ELSE LET rt == update_status(sent.n, "RETRYING")
             IN  IF rt.raised THEN [n |-> sent.n, res |-> "raise"]
                 ELSE LET inc == increment_retry(rt.n)
                      IN  IF ~inc.reached /\ ac < SmsIntervalCount(nr)
                          THEN [n |-> inc.n, res |-> "sleep"]
                          ELSE LET f == update_status(inc.n, "FAILED")
                               IN  IF f.raised
                                   THEN [n |-> inc.n, res |-> "raise"]
                                   ELSE [n |-> f.n, res |-> "fail"]

\* ------------------------------------------------- handle_retry

\* The interval computed from the retry_count after the increment of step 3.
RetryInterval2_AfterIncrement(nr) ==
    IF nr.type = EMERGENCY_ALERT THEN 5
    ELSE 2 * 5 * (2 ^ (nr.retry_count + 1))

\* handle_retry, step 2, in half seconds (base_interval / 2 is 2.5 s).
RetryInterval2(nr) ==
    IF nr.type = EMERGENCY_ALERT THEN 5
    ELSE 2 * 5 * (2 ^ nr.retry_count)

\* handle_retry without its step 1: it increments whatever retry_count is.
RetryPrelude_NoGuard(nr) ==
    LET inc == increment_retry(nr)
    IN  IF inc.reached
        THEN LET u == update_status(inc.n, "FAILED")
             IN  [ n |-> u.n,
                   res |-> IF u.raised THEN "raise" ELSE "false",
                   interval2 |-> 0, entries |-> 1 ]
        ELSE [ n |-> inc.n, res |-> "sleep",
               interval2 |-> RetryInterval2(nr), entries |-> 1 ]

\* handle_retry returning False at the maximum without the FAILED transition.
RetryPrelude_NoFailedMark(nr) ==
    IF nr.retry_count >= nr.max_retries
    THEN [n |-> nr, res |-> "false", interval2 |-> 0, entries |-> 1]
    ELSE LET inc == increment_retry(nr)
         IN  IF inc.reached
             THEN [ n |-> inc.n, res |-> "false",
                    interval2 |-> 0, entries |-> 1 ]
             ELSE [ n |-> inc.n, res |-> "sleep",
                    interval2 |-> RetryInterval2(nr), entries |-> 1 ]

\* handle_retry from its entry to the backoff sleep: "false" (returns False),
\* "raise" (the FAILED transition raises) or "sleep".
RetryPrelude(nr) ==
    IF nr.retry_count >= nr.max_retries
    THEN [n |-> nr, res |-> "false", interval2 |-> 0, entries |-> 1]
    ELSE LET inc == increment_retry(nr)
         IN  IF inc.reached
             THEN LET u == update_status(inc.n, "FAILED")
                  IN  [ n |-> u.n,
                        res |-> IF u.raised THEN "raise" ELSE "false",
                        interval2 |-> 0, entries |-> 1 ]
             ELSE [ n |-> inc.n, res |-> "sleep",
                    interval2 |-> RetryInterval2(nr), entries |-> 1 ]

\* handle_retry after a failed re-attempt: step 8, then the recursive call.
RetryPost(nr) ==
    IF nr.retry_count >= nr.max_retries
    THEN LET u == update_status(nr, "FAILED")
         IN  [ n |-> u.n, res |-> IF u.raised THEN "raise" ELSE "false",
               interval2 |-> 0, entries |-> 0 ]
    ELSE RetryPrelude(nr)

\* ------------------------------------------------- calls

\* A call slot before its first call.
IdleCall ==
    [ op        |-> "idle",    \* send | emergency | deliver | retry
      n         |-> "none",    \* the notification passed to the call
      pc        |-> "idle",    \* first | retry | backoff | wait | direct | done
      ret       |-> "none",    \* true | false | ValidationError | InvalidTransition | AttributeError
      via       |-> "none",    \* how asyncio.wait ended: all_done | deadline | cancelled
      att       |-> [c \in NotificationChannel |-> "none"],
      ac        |-> 0,         \* SMSHandler.send's attempt_counter
      interval2 |-> 0,         \* the backoff being slept, in half seconds
      tried     |-> [c \in NotificationChannel |-> 0],
      invoked   |-> [c \in NotificationChannel |-> 0],
      retries   |-> 0,
      escalated |-> 0,
      rc0       |-> 0 ]

\* The states of a delivery attempt that has not returned.
Running == {"new", "inflight", "sms_yield", "sms_wait"}

\* A slot takes a new call once its call has returned and none of the tasks
\* it created is still running.
Free(k) ==
    /\ calls[k].pc \in {"idle", "done"}
    /\ \A c \in NotificationChannel : calls[k].att[c] \notin Running

\* The call record of a new call of op on notification nid.
NewCall(op, nid) ==
    [IdleCall EXCEPT !.op = op, !.n = nid, !.rc0 = notif[nid].retry_count]

\* The machine state a call on notification nid runs on.
Machine(nid) == [n |-> notif[nid], h |-> health, b |-> breakers]

\* A call returns.
Return(cl, ret) == [cl EXCEPT !.pc = "done", !.ret = ret]

\* What follows the return of handle_channel_delivery(n, c) in its caller:
\* a direct call returns it, a task of the fan-out keeps it as its result,
\* send_notification and handle_retry return True or go on in handle_retry.
Conclude(cl, c, M, success) ==
    LET done == [cl EXCEPT !.att[c] = IF success THEN "true" ELSE "false",
                           !.ac = IF c = "SMS" THEN 0 ELSE @]
    IN  IF cl.op = "emergency" THEN [call |-> done, M |-> M]
        ELSE IF cl.op = "deliver" \/ success
        THEN [call |-> Return(done, IF success THEN "true" ELSE "false"), M |-> M]
        ELSE LET r == IF cl.pc = "first" THEN RetryPrelude(M.n)
                      ELSE RetryPost(M.n)
                 counted == [done EXCEPT !.retries = @ + r.entries]
             IN  [ call |-> IF r.res = "sleep"
                            THEN [counted EXCEPT !.pc = "backoff",
                                                 !.interval2 = r.interval2]
                            ELSE Return(counted,
                                        IF r.res = "raise" THEN "InvalidTransition"
                                        ELSE "false"),
                   M |-> [M EXCEPT !.n = r.n] ]

\* handle_channel_delivery(n, c) from its start to its first suspension:
\* refused by the gate, or the collaborator entered.
BeginDelivery(cl, c, M) ==
    LET entered == [cl EXCEPT !.tried[c] = @ + 1]
        called  == [entered EXCEPT !.invoked[c] = @ + 1]
    IN  IF Refused(M, c) THEN Conclude(entered, c, M, FALSE)
        ELSE IF c = "SMS" /\ smsHandler = "SMSHandler"
        THEN LET s == SmsBegin(M.n)
             IN  IF s.res = "yield"
                 THEN [call |-> [called EXCEPT !.att[c] = "sms_yield"], M |-> M]
                 ELSE LET f == FinishDelivery([M EXCEPT !.n = s.n], c, s.res)
                      IN  Conclude(called, c, f.M, f.success)
        ELSE [call |-> [called EXCEPT !.att[c] = "inflight"], M |-> M]

\* The step of call k on notification nid ends in the call record and
\* machine state of R.
Becomes(k, nid, R) ==
    /\ calls' = [calls EXCEPT ![k] = R.call]
    /\ notif' = [notif EXCEPT ![nid] = R.M.n]
    /\ health' = R.M.h
    /\ breakers' = R.M.b

\* ------------------------------------------------- operations

\* send_notification putting the notification on its channel's normal queue
\* before it looks at the type.
CallSend_QueuesFirst(k, nid) ==
    /\ Free(k)
    /\ LET nr == notif[nid]
           q  == [queues EXCEPT ![nr.channel].normal = Append(@, nid)]
       IN
       IF nr.type = EMERGENCY_ALERT
       THEN /\ \A c \in NotificationChannel : Len(queues[c].emergency) < MaxQueue
            /\ queues' = [c \in NotificationChannel |->
                            [q[c] EXCEPT !.emergency = Append(@, nid)]]
            /\ calls' = [calls EXCEPT ![k] =
                            [NewCall("emergency", nid) EXCEPT
                                !.pc = "wait",
                                !.att = [c \in NotificationChannel |-> "new"]]]
            /\ UNCHANGED <<notif, health, breakers>>
       ELSE /\ Len(queues[nr.channel].normal) < MaxQueue
            /\ queues' = q
            /\ Becomes(k, nid,
                   BeginDelivery([NewCall("send", nid) EXCEPT !.pc = "first"],
                                 nr.channel, Machine(nid)))
    /\ UNCHANGED <<smsHandler, last>>

\* send_notification(n), to its first suspension or its return. Its first
\* statement, the logger.debug call, evaluates notification.type.name and
\* notification.channel.name: on None that raises AttributeError before the
\* validation of step 1.
CallSend(k, nid) ==
    /\ Free(k)
    /\ LET nr == notif[nid] IN
       IF nr.type = None \/ nr.channel = None
       THEN /\ calls' = [calls EXCEPT ![k] =
                            Return(NewCall("send", nid), "AttributeError")]
            /\ UNCHANGED <<notif, health, breakers, queues>>
       ELSE IF nr.recipient = ""
       THEN /\ calls' = [calls EXCEPT ![k] =
                            Return(NewCall("send", nid), "ValidationError")]
            /\ UNCHANGED <<notif, health, breakers, queues>>
       ELSE IF nr.type = EMERGENCY_ALERT
       THEN /\ \A c \in NotificationChannel : Len(queues[c].emergency) < MaxQueue
            /\ queues' = [c \in NotificationChannel |->
                            [queues[c] EXCEPT !.emergency = Append(@, nid)]]
            /\ calls' = [calls EXCEPT ![k] =
                            [NewCall("emergency", nid) EXCEPT
                                !.pc = "wait",
                                !.att = [c \in NotificationChannel |-> "new"]]]
            /\ UNCHANGED <<notif, health, breakers>>
       ELSE /\ Len(queues[nr.channel].normal) < MaxQueue
            /\ queues' = [queues EXCEPT ![nr.channel].normal = Append(@, nid)]
            /\ Becomes(k, nid,
                   BeginDelivery([NewCall("send", nid) EXCEPT !.pc = "first"],
                                 nr.channel, Machine(nid)))
    /\ UNCHANGED <<smsHandler, last>>

\* send_emergency_notification putting the notification on the emergency
\* queue of its own channel only.
CallEmergency_OwnQueue(k, nid) ==
    /\ Free(k)
    /\ IF notif[nid].type # EMERGENCY_ALERT
       THEN /\ calls' = [calls EXCEPT ![k] =
                            Return(NewCall("emergency", nid), "ValidationError")]
            /\ UNCHANGED queues
       ELSE /\ \A c \in NotificationChannel : Len(queues[c].emergency) < MaxQueue
            /\ queues' = [queues EXCEPT
                              ![notif[nid].channel].emergency = Append(@, nid)]
            /\ calls' = [calls EXCEPT ![k] =
                            [NewCall("emergency", nid) EXCEPT
                                !.pc = "wait",
                                !.att = [c \in NotificationChannel |-> "new"]]]
    /\ UNCHANGED <<notif, health, breakers, smsHandler, last>>

\* send_emergency_notification(n), to its suspension in asyncio.wait.
CallEmergency(k, nid) ==
    /\ Free(k)
    /\ IF notif[nid].type # EMERGENCY_ALERT
       THEN /\ calls' = [calls EXCEPT ![k] =
                            Return(NewCall("emergency", nid), "ValidationError")]
            /\ UNCHANGED queues
       ELSE /\ \A c \in NotificationChannel : Len(queues[c].emergency) < MaxQueue
            /\ queues' = [c \in NotificationChannel |->
                            [queues[c] EXCEPT !.emergency = Append(@, nid)]]
            /\ calls' = [calls EXCEPT ![k] =
                            [NewCall("emergency", nid) EXCEPT
                                !.pc = "wait",
                                !.att = [c \in NotificationChannel |-> "new"]]]
    /\ UNCHANGED <<notif, health, breakers, smsHandler, last>>

\* handle_channel_delivery(n, c) called directly.
CallDeliver(k, nid, c) ==
    /\ Free(k)
    /\ Becomes(k, nid,
           BeginDelivery([NewCall("deliver", nid) EXCEPT !.pc = "direct"],
                         c, Machine(nid)))
    /\ UNCHANGED <<queues, smsHandler, last>>

\* handle_retry(n) called directly.
CallRetry(k, nid) ==
    /\ Free(k)
    /\ LET r  == RetryPrelude(notif[nid])
           cl == [NewCall("retry", nid) EXCEPT !.retries = r.entries]
       IN  /\ calls' = [calls EXCEPT ![k] =
                  IF r.res = "sleep"
                  THEN [cl EXCEPT !.pc = "backoff", !.interval2 = r.interval2]
                  ELSE Return(cl, IF r.res = "raise" THEN "InvalidTransition"
                                  ELSE "false")]
           /\ notif' = [notif EXCEPT ![nid] = r.n]
    /\ UNCHANGED <<health, breakers, queues, smsHandler, last>>

\* A task of the fan-out starts running handle_channel_delivery(n, c).
TaskStart(k, c) ==
    /\ calls[k].att[c] = "new"
    /\ Becomes(k, calls[k].n, BeginDelivery(calls[k], c, Machine(calls[k].n)))
    /\ UNCHANGED <<queues, smsHandler, last>>

\* The collaborator of a running attempt completes: handle_channel_delivery
\* resumes, does its bookkeeping and returns.
Collaborator(k, c, outcome) ==
    /\ calls[k].att[c] = "inflight"
    /\ LET f == FinishDelivery(Machine(calls[k].n), c, outcome)
       IN  Becomes(k, calls[k].n, Conclude(calls[k], c, f.M, f.success))
    /\ UNCHANGED <<queues, smsHandler, last>>

\* SMSHandler.send resumes from a sleep and runs one iteration of its loop.
SmsResume(k, twilio) ==
    /\ calls[k].att["SMS"] \in {"sms_yield", "sms_wait"}
    /\ LET cl == calls[k]
           M  == Machine(cl.n)
           ac == IF cl.att["SMS"] = "sms_wait" THEN cl.ac + 1 ELSE 0
       IN  IF ac > SmsConfigMaxRetries
           THEN LET f == FinishDelivery(M, "SMS", "fail")
                IN  Becomes(k, cl.n, Conclude(cl, "SMS", f.M, f.success))
           ELSE LET s == SmsIteration(M.n, ac, twilio)
                IN  IF s.res = "sleep"
                    THEN Becomes(k, cl.n,
                             [ call |-> [cl EXCEPT !.att["SMS"] = "sms_wait",
                                                   !.ac = ac],
                               M |-> [M EXCEPT !.n = s.n] ])
                    ELSE LET f == FinishDelivery([M EXCEPT !.n = s.n],
                                                 "SMS", s.res)
                         IN  Becomes(k, cl.n,
                                     Conclude(cl, "SMS", f.M, f.success))
    /\ UNCHANGED <<queues, smsHandler, last>>

\* The re-attempt started without waiting for the attempt before it or for
\* the backoff sleep.
BackoffElapsed_NoWait(k) ==
    /\ calls[k].op \in {"send", "retry"}
    /\ calls[k].pc \in {"first", "retry", "backoff"}
    /\ LET cl == calls[k]
       IN  Becomes(k, cl.n,
               BeginDelivery([cl EXCEPT !.pc = "retry", !.interval2 = 0],
                             notif[cl.n].channel, Machine(cl.n)))
    /\ UNCHANGED <<queues, smsHandler, last>>

\* The backoff sleep of handle_retry ends: the re-attempt starts.
BackoffElapsed(k) ==
    /\ calls[k].pc = "backoff"
    /\ LET cl == calls[k]
       IN  Becomes(k, cl.n,
               BeginDelivery([cl EXCEPT !.pc = "retry", !.interval2 = 0],
                             notif[cl.n].channel, Machine(cl.n)))
    /\ UNCHANGED <<queues, smsHandler, last>>

\* The evaluation asking for a success on every channel.
Evaluate_NeedsAll(cl) ==
    LET success_count ==
            Cardinality({c \in NotificationChannel : cl.att[c] = "true"})
    IN  IF success_count = Cardinality(NotificationChannel)
        THEN Return(cl, "true")
        ELSE Return([cl EXCEPT !.escalated = @ + 1], "false")

\* The evaluation returning False without the escalation event.
Evaluate_NoEscalation(cl) ==
    LET success_count ==
            Cardinality({c \in NotificationChannel : cl.att[c] = "true"})
    IN  IF success_count > 0 THEN Return(cl, "true")
        ELSE Return(cl, "false")

\* send_emergency_notification, steps 5-8 on the done set of asyncio.wait.
Evaluate(cl) ==
    LET success_count ==
            Cardinality({c \in NotificationChannel : cl.att[c] = "true"})
    IN  IF success_count > 0 THEN Return(cl, "true")
        ELSE Return([cl EXCEPT !.escalated = @ + 1], "false")

\* asyncio.wait(tasks, timeout=300.0) has returned its (done, pending).
Waited(cl, via) == Evaluate([cl EXCEPT !.via = via])

\* asyncio.wait returns because every task is done.
WaitAllDone(k) ==
    /\ calls[k].pc = "wait"
    /\ \A c \in NotificationChannel : calls[k].att[c] \in {"true", "false"}
    /\ calls' = [calls EXCEPT ![k] = Waited(calls[k], "all_done")]
    /\ UNCHANGED <<notif, health, breakers, queues, smsHandler, last>>

\* asyncio.wait without its timeout: it returns only when every task is done.
Deadline_NoTimeout(k) ==
    /\ calls[k].pc = "wait"
    /\ \A c \in NotificationChannel : calls[k].att[c] \in {"true", "false"}
    /\ calls' = [calls EXCEPT ![k] = Waited(calls[k], "deadline")]
    /\ UNCHANGED <<notif, health, breakers, queues, smsHandler, last>>

\* asyncio.wait returns at the 300 s timeout with tasks still pending.
Deadline(k) ==
    /\ calls[k].pc = "wait"
    /\ \E c \in NotificationChannel : calls[k].att[c] \in Running
    /\ calls' = [calls EXCEPT ![k] = Waited(calls[k], "deadline")]
    /\ UNCHANGED <<notif, health, breakers, queues, smsHandler, last>>

\* The caller's task is cancelled while send_emergency_notification waits.
Cancel(k) ==
    /\ calls[k].pc = "wait"
    /\ calls' = [calls EXCEPT ![k] =
                    Return([calls[k] EXCEPT !.via = "cancelled"], "false")]
    /\ UNCHANGED <<notif, health, breakers, queues, smsHandler, last>>

\* A caller calls update_status(new_status) on a notification.
UpdateStatus(nid, new_status) ==
    /\ LET u == update_status(notif[nid], new_status)
       IN  /\ notif' = [notif EXCEPT ![nid] = u.n]
           /\ last' = [ op |-> "update_status", n |-> nid,
                        from |-> notif[nid].status, to |-> new_status,
                        raised |-> u.raised, status |-> u.n.status,
                        retry_count |-> u.n.retry_count, reached |-> FALSE ]
    /\ UNCHANGED <<health, breakers, queues, smsHandler, calls>>

\* A caller calls increment_retry() on a notification.
IncrementRetry(nid) ==
    /\ notif[nid].retry_count < MaxDirectRetry
    /\ LET i == increment_retry(notif[nid])
       IN  /\ notif' = [notif EXCEPT ![nid] = i.n]
           /\ last' = [ op |-> "increment_retry", n |-> nid,
                        from |-> notif[nid].status, to |-> notif[nid].status,
                        raised |-> FALSE, status |-> i.n.status,
                        retry_count |-> i.n.retry_count, reached |-> i.reached ]
    /\ UNCHANGED <<health, breakers, queues, smsHandler, calls>>

\* No direct call on a notification yet.
NoLast ==
    [ op |-> "none", n |-> "none", from |-> "PENDING", to |-> "PENDING",
      raised |-> FALSE, status |-> "PENDING", retry_count |-> 0,
      reached |-> FALSE ]

\* ------------------------------------------------- specifications

\* Every notification a caller can construct for the orchestrator.
Constructed ==
    { NewNotification(r, t, c) :
        r \in Recipients, t \in NotificationType, c \in NotificationChannel }

\* The state after construction of the service and of the notifications.
InitOf(notifications, handlers) ==
    /\ notif \in notifications
    /\ smsHandler \in handlers
    /\ health = InitHealth
    /\ breakers = InitBreakers
    /\ queues = InitQueues
    /\ calls = [k \in Calls |-> IdleCall]
    /\ last = NoLast

Outcomes == {"ok", "fail", "raise"}

\* Calls of the orchestrator's operations in slot k on notification nid.
Starts(k, nid) ==
    \/ CallSend(k, nid)
    \/ CallEmergency(k, nid)
    \/ CallRetry(k, nid)
    \/ \E c \in NotificationChannel : CallDeliver(k, nid, c)

\* The steps of a running call in slot k.
Runs(k) ==
    \/ \E c \in NotificationChannel : TaskStart(k, c)
    \/ \E c \in NotificationChannel, o \in Outcomes : Collaborator(k, c, o)
    \/ \E t \in {"ok", "raise"} : SmsResume(k, t)
    \/ BackoffElapsed(k)
    \/ WaitAllDone(k)
    \/ Deadline(k)
    \/ Cancel(k)

\* Direct calls on notification nid.
Entity(nid) ==
    \/ \E s \in NotificationStatus : UpdateStatus(nid, s)
    \/ IncrementRetry(nid)

\* The second notification object, not passed to any call.
Spare == NewNotification("phone", "WALK_SCHEDULED", "EMAIL")

\* Notification n1 constructed as any member of S.
Fixture(S) == {[n \in Notifs |-> IF n = "n1" THEN x ELSE Spare] : x \in S}

\* The service with either sms_handler; a PUSH notification, ordinary or
\* emergency. Slot a runs the four operations, slot b overlapping direct
\* deliveries on the same channel.
Init ==
    InitOf(Fixture({NewNotification("phone", t, "PUSH") : t \in NotificationType}),
           SmsHandlers)

Next ==
    \/ CallSend("a", "n1")
    \/ CallEmergency("a", "n1")
    \/ CallRetry("a", "n1")
    \/ \E k \in Calls : CallDeliver(k, "n1", "PUSH")
    \/ \E k \in Calls : Runs(k)

Spec == Init /\ [][Next]_vars

\* Direct calls on one notification of any construction.
InitEntity == InitOf(Fixture(Constructed), {"contract"})

NextEntity == Entity("n1")

SpecEntity == InitEntity /\ [][NextEntity]_vars

\* Direct handle_channel_delivery calls, one at a time, on every channel.
InitBreaker ==
    InitOf(Fixture({NewNotification(r, "WALK_SCHEDULED", "SMS") :
                        r \in {"email", "phone"}}),
           SmsHandlers)

NextBreaker ==
    \/ \E c \in NotificationChannel : CallDeliver("a", "n1", c)
    \/ \E c \in NotificationChannel, o \in Outcomes : Collaborator("a", c, o)
    \/ \E t \in {"ok", "raise"} : SmsResume("a", t)

SpecBreaker == InitBreaker /\ [][NextBreaker]_vars

\* Emergency fan-outs of one call slot, with direct PUSH deliveries between
\* them (which can open the PUSH breaker).
InitEmergency ==
    InitOf(Fixture({NewNotification(r, EMERGENCY_ALERT, c) :
                        r \in {"email", "phone"}, c \in {"EMAIL", "SMS"}}),
           SmsHandlers)

NextEmergency ==
    \/ CallEmergency("a", "n1")
    \/ CallDeliver("a", "n1", "PUSH")
    \/ \E c \in NotificationChannel : TaskStart("a", c)
    \/ \E c \in NotificationChannel, o \in Outcomes : Collaborator("a", c, o)
    \/ \E t \in {"ok", "raise"} : SmsResume("a", t)
    \/ WaitAllDone("a")
    \/ Deadline("a")
    \/ Cancel("a")

SpecEmergency == InitEmergency /\ [][NextEmergency]_vars

\* The fan-out on an event loop that runs its timer and the waiter's wake-up:
\* asyncio.wait returns at the timeout or when every task is done. Nothing
\* obliges a collaborator to complete.
InitFanOut ==
    InitOf(Fixture({NewNotification("phone", EMERGENCY_ALERT, "EMAIL")}),
           SmsHandlers)

NextFanOut ==
    \/ CallEmergency("a", "n1")
    \/ \E c \in NotificationChannel : TaskStart("a", c)
    \/ \E c \in NotificationChannel, o \in Outcomes : Collaborator("a", c, o)
    \/ \E t \in {"ok", "raise"} : SmsResume("a", t)
    \/ WaitAllDone("a")
    \/ Deadline("a")
    \/ Cancel("a")

SpecFanOutFair ==
    /\ InitFanOut
    /\ [][NextFanOut]_vars
    /\ WF_vars(Deadline("a") \/ WaitAllDone("a"))

\* send_notification on one ordinary notification, sent and sent again.
InitSend ==
    InitOf(Fixture({NewNotification(r, "WALK_SCHEDULED", c) :
                        r \in {"email", "phone"}, c \in NotificationChannel}),
           SmsHandlers)

NextSend ==
    \/ CallSend("a", "n1")
    \/ \E c \in NotificationChannel, o \in Outcomes : Collaborator("a", c, o)
    \/ \E t \in {"ok", "raise"} : SmsResume("a", t)
    \/ BackoffElapsed("a")

SpecSend == InitSend /\ [][NextSend]_vars

\* One ordinary notification through send_notification, handle_retry and
\* handle_channel_delivery on its own channel, called one after the other.
InitRetry ==
    InitOf(Fixture({NewNotification(r, "WALK_SCHEDULED", c) :
                        r \in {"email", "phone"}, c \in NotificationChannel}),
           SmsHandlers)

NextRetry ==
    \/ CallSend("a", "n1")
    \/ CallRetry("a", "n1")
    \/ CallDeliver("a", "n1", notif["n1"].channel)
    \/ \E c \in NotificationChannel, o \in Outcomes : Collaborator("a", c, o)
    \/ \E t \in {"ok", "raise"} : SmsResume("a", t)
    \/ BackoffElapsed("a")

SpecRetry == InitRetry /\ [][NextRetry]_vars

\* send_notification with collaborators that return and a timer that fires:
\* every collaborator call in progress completes, every backoff sleep ends.
SpecSendFair ==
    /\ InitSend
    /\ [][NextSend]_vars
    /\ WF_vars(\E c \in NotificationChannel, o \in Outcomes :
                   Collaborator("a", c, o))
    /\ WF_vars(\E t \in {"ok", "raise"} : SmsResume("a", t))
    /\ WF_vars(BackoffElapsed("a"))

\* One notification of any type and channel through every operation of the
\* entity and of the orchestrator, one call at a time: one direct call on
\* the entity comes before the orchestrator's first call, and a fan-out
\* waits for its three attempts.
InitLifecycle ==
    InitOf(Fixture({NewNotification("phone", t, c) :
                        t \in NotificationType, c \in NotificationChannel}),
           SmsHandlers)

DirectCall == calls["a"].pc = "idle" /\ last = NoLast /\ Entity("n1")

NextLifecycle ==
    \/ CallSend("a", "n1")
    \/ CallEmergency("a", "n1")
    \/ CallRetry("a", "n1")
    \/ CallDeliver("a", "n1", notif["n1"].channel)
    \/ \E c \in NotificationChannel : TaskStart("a", c)
    \/ \E c \in NotificationChannel, o \in Outcomes : Collaborator("a", c, o)
    \/ \E t \in {"ok", "raise"} : SmsResume("a", t)
    \/ BackoffElapsed("a")
    \/ WaitAllDone("a")
    \/ DirectCall

SpecLifecycle == InitLifecycle /\ [][NextLifecycle]_vars

\* Fan-outs on a new service whose three attempts all complete before the
\* deadline, in any order.
InitOrder ==
    InitOf(Fixture({NewNotification("phone", EMERGENCY_ALERT, c) :
                        c \in NotificationChannel}),
           SmsHandlers)

NextOrder ==
    \/ CallEmergency("a", "n1")
    \/ \E c \in NotificationChannel : TaskStart("a", c)
    \/ \E c \in NotificationChannel, o \in Outcomes : Collaborator("a", c, o)
    \/ \E t \in {"ok", "raise"} : SmsResume("a", t)
    \/ WaitAllDone("a")

SpecOrder == InitOrder /\ [][NextOrder]_vars

\* ------------------------------------------------- properties

\* The transition table of the specification, section 4.1.
TransitionTable ==
    { <<"PENDING", "SENT">>, <<"PENDING", "FAILED">>, <<"PENDING", "RETRYING">>,
      <<"SENT", "DELIVERED">>, <<"SENT", "FAILED">>, <<"SENT", "RETRYING">>,
      <<"FAILED", "RETRYING">>,
      <<"RETRYING", "SENT">>, <<"RETRYING", "FAILED">> }

\* C1: update_status(t) from status s succeeds exactly when (s, t) is in the
\* transition table and then sets the status to t; for every other pair,
\* every self-transition included, it raises and leaves the status as it was.
C1_UpdateStatusFollowsTable ==
    last.op = "update_status" =>
        /\ last.raised <=> <<last.from, last.to>> \notin TransitionTable
        /\ last.status = IF last.raised THEN last.from ELSE last.to
        /\ notif[last.n].status = last.status

\* A self-transition on the terminal status was attempted and rejected.
C1_Witness ==
    /\ last.op = "update_status"
    /\ last.from = "DELIVERED" /\ last.to = "DELIVERED"
    /\ last.raised
    /\ notif["n1"].status = "DELIVERED"

\* C2: with the attempts on a channel made one at a time, the channel's
\* breaker is open exactly when its consecutive-failure counter has reached
\* the threshold of 5: closed at 4 failures and below, open from the 5th.
C2_BreakerOpensAtThreshold ==
    \A c \in NotificationChannel :
        /\ breakers[c].threshold = 5
        /\ breakers[c].is_open <=> health[c].failures >= 5

\* One breaker opened by a fifth failure, another still closed after four.
C2_Witness ==
    /\ breakers["EMAIL"].is_open /\ health["EMAIL"].failures = 5
    /\ ~breakers["PUSH"].is_open /\ health["PUSH"].failures = 4

\* C3: no step of any operation closes an open breaker or changes a
\* threshold.
C3_BreakerStaysOpen ==
    [][\A c \in NotificationChannel :
          /\ breakers[c].is_open => breakers'[c].is_open
          /\ breakers'[c].threshold = breakers[c].threshold]_vars

\* A send_notification was refused by the open breaker of its channel.
C3_Witness ==
    /\ breakers["PUSH"].is_open
    /\ calls["a"].op = "send" /\ calls["a"].pc = "done"
    /\ calls["a"].tried["PUSH"] >= 1 /\ calls["a"].invoked["PUSH"] = 0

\* C4: a handle_channel_delivery call that starts while the channel's
\* breaker is open or its health state is not UP returns False at once,
\* without calling the collaborator, and changes no failure counter, no
\* breaker flag and nothing of the notification.
C4_RefusedDeliveryHasNoEffect ==
    [][\A k \in Calls, nid \in Notifs, c \in NotificationChannel :
          (/\ CallDeliver(k, nid, c)
           /\ (breakers[c].is_open \/ health[c].state # "UP"))
          => /\ calls'[k].pc = "done" /\ calls'[k].ret = "false"
             /\ calls'[k].invoked[c] = 0
             /\ health' = health /\ breakers' = breakers /\ notif' = notif]_vars

\* A direct delivery returned False, refused by a breaker five failures opened.
C4_Witness ==
    \E c \in NotificationChannel :
        /\ breakers[c].is_open /\ health[c].failures = 5
        /\ calls["a"].op = "deliver" /\ calls["a"].ret = "false"
        /\ calls["a"].tried[c] = 1 /\ calls["a"].invoked[c] = 0

\* An attempt of call k on channel c that went through the gate returns in
\* this step, with result res.
AttemptReturns(k, c, res) ==
    /\ calls'[k].att[c] = res
    /\ \/ calls[k].att[c] \in {"inflight", "sms_yield", "sms_wait"}
       \/ /\ \E nid \in Notifs : CallDeliver(k, nid, c)
          /\ calls'[k].invoked[c] = 1

\* C5: every delivery attempt that went through the gate ends by adding
\* exactly 1 to its channel's failure counter when the collaborator raised
\* or reported no success, and by setting the counter to 0 when it succeeded.
C5_FailureCounting ==
    [][\A k \in Calls, c \in NotificationChannel :
          /\ \A o \in {"fail", "raise"} :
                Collaborator(k, c, o)
                    => /\ health'[c].failures = health[c].failures + 1
                       /\ calls'[k].att[c] = "false"
          /\ Collaborator(k, c, "ok")
                => health'[c].failures = 0 /\ calls'[k].att[c] = "true"
          /\ AttemptReturns(k, c, "false")
                => health'[c].failures = health[c].failures + 1
          /\ AttemptReturns(k, c, "true") => health'[c].failures = 0]_vars

\* A success reset one channel's counter while another stands at three.
C5_Witness ==
    /\ calls["a"].op = "deliver" /\ calls["a"].ret = "true"
    /\ calls["a"].invoked["PUSH"] = 1 /\ health["PUSH"].failures = 0
    /\ health["EMAIL"].failures = 3 /\ health["SMS"].failures = 2

\* asyncio.wait of call k returns in this step.
WaitEnds(k) == calls[k].pc = "wait" /\ calls'[k].pc = "done"

EmergencyReturned(k) ==
    /\ calls[k].op = "emergency" /\ calls[k].pc = "done"
    /\ calls[k].ret \in {"true", "false"}

C8_OneAttemptPerChannelNoRetry ==
    \A k \in Calls :
        (calls[k].op = "emergency" /\ calls[k].pc \in {"wait", "done"}
            /\ calls[k].ret # "ValidationError")
        => /\ \A c \in NotificationChannel :
                  calls[k].tried[c] = IF calls[k].att[c] = "new" THEN 0 ELSE 1
           /\ calls[k].retries = 0
           /\ calls[k].escalated <= 1
           /\ notif[calls[k].n].retry_count = calls[k].rc0

\* C9: a send_emergency_notification call that waits always returns: at the
\* deadline at the latest, also when some attempt never completes. Attempts
\* pending at the deadline count for nothing: the call then returns True
\* only on an attempt that had completed with True, and False otherwise.
C9_ReturnsAtDeadline ==
    /\ \A k \in Calls : (calls[k].pc = "wait") ~> (calls[k].pc = "done")
    /\ [][\A k \in Calls :
             Deadline(k) =>
                 calls'[k].ret =
                     IF \E c \in NotificationChannel : calls[k].att[c] = "true"
                     THEN "true" ELSE "false"]_vars

\* The call returned False at the deadline with every attempt still running.
C9_Witness ==
    /\ calls["a"].op = "emergency" /\ calls["a"].pc = "done"
    /\ calls["a"].via = "deadline" /\ calls["a"].ret = "false"
    /\ \A c \in NotificationChannel : calls["a"].att[c] \in Running

\* C10 as stated: a send_notification call on a valid ordinary notification
\* returns True if and only if its first attempt or one of its retries
\* succeeded, and returns False when every attempt failed or was refused.
C10_SendReturnsOutcome ==
    \A k \in Calls :
        (calls[k].op = "send" /\ calls[k].pc = "done"
            /\ calls[k].ret # "ValidationError")
        => /\ calls[k].ret \in {"true", "false"}
           /\ calls[k].ret = "true"
                 <=> calls[k].att[notif[calls[k].n].channel] = "true"

\* handle_retry(nid) is entered in this step, with the notification as it is
\* before the step: called directly, or by call k after an attempt that a
\* collaborator honouring the contract failed.
RetryEntered(k, nid) ==
    \/ CallRetry(k, nid)
    \/ /\ calls[k].n = nid
       /\ calls[k].op \in {"send", "retry"}
       /\ calls[k].pc \in {"first", "retry"}
       /\ \E c \in NotificationChannel, o \in {"fail", "raise"} :
              Collaborator(k, c, o)

\* Call k starts no delivery attempt in this step.
NoAttemptIn(k) ==
    \A c \in NotificationChannel :
        calls'[k].tried[c] =
            IF calls[k].pc \in {"idle", "done"} THEN 0 ELSE calls[k].tried[c]

\* C11 as stated: whenever handle_retry's increment_retry reports that
\* max_retries is reached, the status becomes FAILED and handle_retry returns
\* False, without a backoff sleep and without another delivery attempt.
C11_ReachedMaxMarksFailed ==
    [][\A k \in Calls, nid \in Notifs :
          (/\ RetryEntered(k, nid)
           /\ notif[nid].retry_count < notif[nid].max_retries
           /\ notif[nid].retry_count + 1 >= notif[nid].max_retries)
          => /\ notif'[nid].retry_count = notif[nid].retry_count + 1
             /\ notif'[nid].status = "FAILED"
             /\ calls'[k].pc = "done" /\ calls'[k].ret = "false"
             /\ NoAttemptIn(k)]_vars

\* C12: handle_retry entered with retry_count >= max_retries returns False
\* at once: it changes nothing of the notification, sleeps no backoff and
\* starts no delivery attempt; called directly, it leaves every failure
\* counter and breaker flag as it was.
C12_ExhaustedRetryDoesNothing ==
    [][\A k \in Calls, nid \in Notifs :
          (/\ RetryEntered(k, nid)
           /\ calls[k].pc # "retry"
           /\ notif[nid].retry_count >= notif[nid].max_retries)
          => /\ notif'[nid] = notif[nid]
             /\ calls'[k].pc = "done" /\ calls'[k].ret = "false"
             /\ calls'[k].interval2 = 0
             /\ NoAttemptIn(k)
             /\ CallRetry(k, nid) => health' = health /\ breakers' = breakers]_vars

\* handle_retry, called on a FAILED notification out of retries, returned
\* False having attempted nothing.
C12_Witness ==
    /\ calls["a"].op = "retry" /\ calls["a"].pc = "done"
    /\ calls["a"].ret = "false"
    /\ calls["a"].rc0 >= notif["n1"].max_retries
    /\ notif["n1"].retry_count = calls["a"].rc0
    /\ notif["n1"].status = "FAILED"
    /\ \A c \in NotificationChannel : calls["a"].tried[c] = 0

\* C13: every send_notification call on an ordinary notification terminates
\* when its collaborator calls return; handle_retry is entered at most
\* max_retries times in one call, and every entry that does not return
\* increases retry_count.
C13_SendTerminates ==
    /\ \A k \in Calls :
           (calls[k].op = "send" /\ calls[k].pc # "done")
               ~> (calls[k].pc = "done")
    /\ [][\A k \in Calls :
             calls'[k].op = "send" =>
                 /\ calls'[k].retries <= notif'[calls'[k].n].max_retries
                 /\ (/\ calls[k].pc \notin {"idle", "done"}
                     /\ calls'[k].retries > calls[k].retries
                     /\ calls'[k].pc # "done")
                    => notif'[calls[k].n].retry_count
                           > notif[calls[k].n].retry_count]_vars

\* An EMAIL send entered handle_retry three times, made three attempts and
\* returned False.
C13_Witness ==
    /\ calls["a"].op = "send" /\ calls["a"].pc = "done"
    /\ calls["a"].ret = "false"
    /\ calls["a"].retries = 3 /\ calls["a"].tried["EMAIL"] = 3
    /\ notif["n1"].retry_count = notif["n1"].max_retries

\* C14: a call of increment_retry increases retry_count by exactly 1 and
\* returns True exactly when retry_count has then reached max_retries: on a
\* fresh notification the k-th call returns False while k < max_retries and
\* True when k = max_retries.
C14_IncrementRetryCounts ==
    [][\A nid \in Notifs :
          (last'.op = "increment_retry" /\ last'.n = nid
              /\ notif'[nid] # notif[nid])
          => /\ notif'[nid].retry_count = notif[nid].retry_count + 1
             /\ last'.retry_count = notif'[nid].retry_count
             /\ last'.reached <=>
                    notif'[nid].retry_count >= notif'[nid].max_retries
             /\ notif'[nid].status = notif[nid].status]_vars

\* The second increment_retry on a PUSH notification reported the maximum.
C14_Witness ==
    /\ last.op = "increment_retry" /\ last.reached
    /\ notif["n1"].channel = "PUSH"
    /\ last.retry_count = 2 /\ notif["n1"].retry_count = 2

\* C15: max_retries is 3 for an EMAIL, 2 for a PUSH and 1 for an SMS
\* notification, and no step of the entity or of the orchestrator changes it.
C15_MaxRetriesFixed ==
    [][\A nid \in Notifs :
          /\ notif[nid].max_retries =
                 CASE notif[nid].channel = "EMAIL" -> 3
                   [] notif[nid].channel = "PUSH"  -> 2
                   [] notif[nid].channel = "SMS"   -> 1
          /\ notif'[nid].max_retries = notif[nid].max_retries
          /\ notif'[nid].channel = notif[nid].channel]_vars

\* An SMS notification still has max_retries 1 after a send that failed and
\* went through handle_retry.
C15_Witness ==
    /\ notif["n1"].channel = "SMS" /\ notif["n1"].max_retries = 1
    /\ notif["n1"].retry_count >= 1
    /\ calls["a"].op = "send" /\ calls["a"].pc = "done"
    /\ calls["a"].retries = 1

\* C16 as stated: for a notification that passes validation,
\* send_notification and send_emergency_notification return True or False
\* and never raise.
C16_NeverRaises ==
    \A k \in Calls :
        (calls[k].op \in {"send", "emergency"} /\ calls[k].pc = "done"
            /\ calls[k].ret # "ValidationError")
        => calls[k].ret \in {"true", "false"}

\* C17: whenever the collaborator reports success, the delivery attempt
\* returns True; the status, if PENDING or RETRYING at that moment, becomes
\* DELIVERED, and if SENT, DELIVERED or FAILED stays what it is.
C17_SuccessReturnsTrue ==
    [][\A k \in Calls, c \in NotificationChannel :
          (Collaborator(k, c, "ok") \/ AttemptReturns(k, c, "true"))
          => /\ calls'[k].att[c] = "true"
             /\ calls[k].op = "deliver" => calls'[k].ret = "true"
             /\ notif'[calls[k].n].status =
                    IF notif[calls[k].n].status \in {"PENDING", "RETRYING"}
                    THEN "DELIVERED"
                    ELSE notif[calls[k].n].status]_vars

\* A delivery on a FAILED notification succeeded and left it FAILED.
C17_Witness ==
    /\ calls["a"].op = "deliver" /\ calls["a"].pc = "done"
    /\ calls["a"].ret = "true"
    /\ notif["n1"].status = "FAILED"
    /\ last.op = "update_status" /\ last.to = "FAILED" /\ ~last.raised

\* C18 as stated: when the first attempt of send_notification is refused by
\* the gate, the call returns False without raising, without a backoff
\* sleep, without incrementing retry_count and without another attempt.
C18_RefusedSendIsNotRetried ==
    [][\A k \in Calls, nid \in Notifs :
          (/\ CallSend(k, nid)
           /\ notif[nid].recipient # ""
           /\ notif[nid].type # EMERGENCY_ALERT
           /\ Refused(Machine(nid), notif[nid].channel))
          => /\ calls'[k].pc = "done" /\ calls'[k].ret = "false"
             /\ notif'[nid].retry_count = notif[nid].retry_count
             /\ calls'[k].tried[notif[nid].channel] = 1
             /\ calls'[k].invoked[notif[nid].channel] = 0]_vars

\* C19: in one send_notification call the attempts are sequential: an
\* attempt starts only from the backoff sleep that followed the return of
\* the attempt before it, and no attempt is running during a sleep.
C19_AttemptsSequential ==
    [][\A k \in Calls, c \in NotificationChannel :
          /\ (calls'[k].op = "send" /\ calls'[k].att[c] \in Running)
                => /\ c = notif'[calls'[k].n].channel
                   /\ calls'[k].pc \in {"first", "retry"}
          /\ (/\ calls[k].op = "send"
              /\ calls[k].pc \notin {"idle", "done"}
              /\ calls'[k].tried[c] # calls[k].tried[c])
             => /\ calls[k].pc = "backoff"
                /\ calls[k].att[c] = "false"
                /\ calls'[k].tried[c] = calls[k].tried[c] + 1]_vars

\* The third attempt of an EMAIL send is running, after two that failed.
C19_Witness ==
    /\ calls["a"].op = "send" /\ calls["a"].pc = "retry"
    /\ calls["a"].att["EMAIL"] = "inflight"
    /\ calls["a"].tried["EMAIL"] = 3 /\ calls["a"].retries = 2

\* C20 as stated: the outcome of a fan-out whose attempts all complete
\* before the deadline is fixed by the per-channel results, whatever the
\* order of completion. On a new service and a new notification: the call
\* returns True and does not escalate exactly when some result is True, a
\* channel's failure counter is 0 after a True and 1 after a False, no
\* breaker is open, and the status is DELIVERED whenever some result is True
\* (as it is when the successful attempt completes first).
C20_OutcomeIndependentOfOrder ==
    \A k \in Calls :
        (/\ calls[k].op = "emergency" /\ calls[k].pc = "done"
         /\ calls[k].via = "all_done"
         /\ Len(queues["EMAIL"].emergency) = 1)
        => LET some == \E c \in NotificationChannel : calls[k].att[c] = "true"
           IN  /\ calls[k].ret = IF some THEN "true" ELSE "false"
               /\ calls[k].escalated = IF some THEN 0 ELSE 1
               /\ \A c \in NotificationChannel :
                      /\ health[c].failures =
                             IF calls[k].att[c] = "true" THEN 0 ELSE 1
                      /\ ~breakers[c].is_open
               /\ some => notif[calls[k].n].status = "DELIVERED"

\* A step of the attempt handle_channel_delivery(n, c) of call k: its start
\* (called directly or as a task of the fan-out) or a resumption of it.
AttemptStep(k, c) ==
    \/ \E nid \in Notifs : CallDeliver(k, nid, c)
    \/ TaskStart(k, c)
    \/ \E o \in Outcomes : Collaborator(k, c, o)
    \/ c = "SMS" /\ \E t \in {"ok", "raise"} : SmsResume(k, t)

\* C21 as stated: a channel collaborator's deliver call returns or raises
\* without changing the notification's status or retry_count. In a direct
\* handle_channel_delivery call the only write is then the orchestrator's
\* own, the SENT and DELIVERED transitions after a success: retry_count
\* never changes, and status changes only as those transitions change it.
C21_CollaboratorLeavesNotification ==
    [][\A k \in Calls, c \in NotificationChannel :
          (AttemptStep(k, c) /\ calls'[k].op = "deliver")
          => LET before == notif[calls'[k].n]
                 after  == notif'[calls'[k].n]
             IN  /\ after.retry_count = before.retry_count
                 /\ after.status =
                        IF calls'[k].att[c] = "true"
                        THEN MarkDelivered(before).status
                        ELSE before.status]_vars

\* C22 as stated: in an emergency fan-out whose three attempts all complete,
\* at most one attempt writes the notification's status. In the first
\* fan-out on a new notification an attempt that changes the status finds it
\* PENDING, as constructed, so that no attempt wrote before it; the one
\* attempt allowed to find another status is the SMS attempt going on after
\* a write of its own (no other attempt in a fan-out writes RETRYING or
\* FAILED).
C22_OneWriterPerFanOut ==
    [][\A k \in Calls, c \in NotificationChannel :
          (/\ AttemptStep(k, c)
           /\ calls'[k].op = "emergency"
           /\ Len(queues["EMAIL"].emergency) = 1
           /\ notif'[calls[k].n].status # notif[calls[k].n].status)
          => (notif[calls[k].n].status = "PENDING" \/ c = "SMS")]_vars

\* Both entry points on one notification whose recipient_id, type and
\* channel are each set or left unset.
InitValidate ==
    InitOf(Fixture({NewNotification(r, t, c) :
                        r \in Recipients,
                        t \in NotificationType \cup {None},
                        c \in NotificationChannel \cup {None}}),
           SmsHandlers)

NextValidate ==
    \/ CallSend("a", "n1")
    \/ CallEmergency("a", "n1")
    \/ \E c \in NotificationChannel : TaskStart("a", c)
    \/ \E c \in NotificationChannel, o \in Outcomes : Collaborator("a", c, o)
    \/ \E t \in {"ok", "raise"} : SmsResume("a", t)
    \/ BackoffElapsed("a")
    \/ WaitAllDone("a")

SpecValidate == InitValidate /\ [][NextValidate]_vars

\* C23 as stated: send_notification on a notification missing recipient_id,
\* type or channel, and send_emergency_notification on a notification whose
\* type is not EMERGENCY_ALERT, return by raising the ValidationError, with
\* no queue append, no delivery attempt, no retry, and no change to the
\* failure counters, the breaker flags, or the notification.
C23_InvalidInputRejected ==
    [][\A k \in Calls, nid \in Notifs :
          (\/ /\ CallSend(k, nid)
              /\ \/ notif[nid].recipient = ""
                 \/ notif[nid].type = None
                 \/ notif[nid].channel = None
           \/ /\ CallEmergency(k, nid)
              /\ notif[nid].type # EMERGENCY_ALERT)
          => /\ calls'[k].pc = "done"
             /\ calls'[k].ret = "ValidationError"
             /\ \A c \in NotificationChannel : calls'[k].tried[c] = 0
             /\ calls'[k].retries = 0
             /\ UNCHANGED <<queues, health, breakers, notif>>]_vars

\* send_notification on an emergency notification, sent and sent again, its
\* fan-out waiting for the three attempts.
NextDelegate ==
    \/ CallSend("a", "n1")
    \/ \E c \in NotificationChannel : TaskStart("a", c)
    \/ \E c \in NotificationChannel, o \in Outcomes : Collaborator("a", c, o)
    \/ \E t \in {"ok", "raise"} : SmsResume("a", t)
    \/ WaitAllDone("a")

SpecDelegate == InitOrder /\ [][NextDelegate]_vars

\* C24: send_notification on an EMERGENCY_ALERT notification is
\* send_emergency_notification on it. Its step from any state is the step a
\* direct send_emergency_notification call takes from that state (the same
\* call record, queues and machine state, so the same steps and the same
\* return value follow); no normal queue changes, and handle_retry is not
\* entered at any point of the call.
C24_EmergencySendDelegates ==
    [][\A k \in Calls, nid \in Notifs :
          /\ (CallSend(k, nid) /\ notif[nid].type = EMERGENCY_ALERT)
             => /\ CallEmergency(k, nid)
                /\ \A c \in NotificationChannel :
                       queues'[c].normal = queues[c].normal
          /\ calls'[k].op = "emergency" => calls'[k].retries = 0]_vars

C24_Witness ==
    /\ calls["a"].op = "emergency" /\ calls["a"].pc = "done"
    /\ calls["a"].ret = "false" /\ calls["a"].escalated = 1
    /\ calls["a"].retries = 0
    /\ Len(queues["SMS"].emergency) = 2 /\ Len(queues["SMS"].normal) = 0

\* The entries of sequence q that are notification nid.
Entries(q, nid) == Cardinality({i \in 1..Len(q) : q[i] = nid})

\* C25: a call that routes a notification appends it to the matching queue
\* once, before its first delivery attempt: a non-emergency send to the
\* normal queue of the notification's channel only, an emergency send (by
\* either entry point) to the emergency queue of each of the three channels.
\* No other step (an attempt, a retry, a direct call) changes a queue, so
\* nothing is appended again, removed or reordered, and every attempt of a
\* send finds the notification on its queue.
C25_QueuedOncePerCall ==
    [][/\ \A k \in Calls, nid \in Notifs :
             /\ (CallSend(k, nid) /\ notif[nid].type # EMERGENCY_ALERT)
                => queues' = [queues EXCEPT
                                 ![notif[nid].channel].normal = Append(@, nid)]
             /\ ((CallSend(k, nid) \/ CallEmergency(k, nid))
                     /\ notif[nid].type = EMERGENCY_ALERT)
                => queues' = [c \in NotificationChannel |->
                                 [queues[c] EXCEPT !.emergency = Append(@, nid)]]
             /\ (CallEmergency(k, nid) /\ notif[nid].type # EMERGENCY_ALERT)
                => queues' = queues
       /\ (~ \E k \in Calls, nid \in Notifs :
               CallSend(k, nid) \/ CallEmergency(k, nid))
          => queues' = queues
       /\ \A k \in Calls, c \in NotificationChannel :
             calls'[k].tried[c] > 0
             => /\ calls'[k].op = "send"
                   => Entries(queues'[c].normal, calls'[k].n) > 0
                /\ calls'[k].op = "emergency"
                   => \A d \in NotificationChannel :
                          Entries(queues'[d].emergency, calls'[k].n) > 0]_vars

\* A send that went through two retries, its notification queued for the
\* second time: two entries after two calls.
C25_Witness ==
    /\ calls["a"].op = "send" /\ calls["a"].pc = "done"
    /\ calls["a"].tried["EMAIL"] = 3
    /\ queues["EMAIL"].normal = <<"n1", "n1">>
    /\ \A c \in NotificationChannel : queues[c].emergency = <<>>

\* One notification of any type and channel through every operation of the
\* orchestrator, one call at a time.
NextRouting ==
    \/ CallSend("a", "n1")
    \/ CallEmergency("a", "n1")
    \/ CallRetry("a", "n1")
    \/ CallDeliver("a", "n1", notif["n1"].channel)
    \/ \E c \in NotificationChannel : TaskStart("a", c)
    \/ \E c \in NotificationChannel, o \in Outcomes : Collaborator("a", c, o)
    \/ \E t \in {"ok", "raise"} : SmsResume("a", t)
    \/ BackoffElapsed("a")
    \/ WaitAllDone("a")

SpecRouting == InitLifecycle /\ [][NextRouting]_vars

\* ------------------------------------------------- construction

LOCATION_UPDATE == "LOCATION_UPDATE"

\* The types _validate_content tells apart: the two it names and one
\* representative of the eight others.
ContentTypes == NotificationType \cup {LOCATION_UPDATE}

\* The keys of a content dict: the two _validate_content looks for and one
\* other.
ContentKeys == {"alert_level", "location", "title"}

\* _validate_content looking for the location field only.
validate_content_LocationOnly(content, ntype) ==
    ntype = LOCATION_UPDATE /\ "location" \notin content

\* Notification._validate_content(content, ntype) on the key set of content:
\* TRUE when it raises ValueError.
validate_content(content, ntype) ==
    \/ ntype = LOCATION_UPDATE /\ "location" \notin content
    \/ ntype = EMERGENCY_ALERT /\ "alert_level" \notin content

\* A caller evaluates Notification(recipient, type, channel, content): the
\* constructor raises, or returns the new object.
Construct(recipient, type, channel, content) ==
    /\ last' = [ op |-> "construct", type |-> type, content |-> content,
                 raised |-> validate_content(content, type),
                 objects |-> IF validate_content(content, type) THEN <<>>
                             ELSE <<NewNotification(recipient, type, channel)>> ]
    /\ UNCHANGED <<notif, health, breakers, queues, smsHandler, calls>>

\* Constructor calls with every type, channel, recipient and content.
InitConstruct == InitOf(Fixture({Spare}), {"contract"})

NextConstruct ==
    \E r \in Recipients, t \in ContentTypes, c \in NotificationChannel,
       content \in SUBSET ContentKeys :
        Construct(r, t, c, content)

SpecConstruct == InitConstruct /\ [][NextConstruct]_vars

\* C26: the constructor raises the content-validation error exactly for an
\* EMERGENCY_ALERT without an alert_level field and for a LOCATION_UPDATE
\* without a location field, and then returns no object; for every other
\* type, and for these two with their field, it returns the object whatever
\* the content.
C26_ContentValidated ==
    last.op = "construct"
    => LET missing ==
               \/ last.type = EMERGENCY_ALERT /\ "alert_level" \notin last.content
               \/ last.type = LOCATION_UPDATE /\ "location" \notin last.content
       IN  /\ last.raised <=> missing
           /\ missing => last.objects = <<>>
           /\ ~missing => /\ Len(last.objects) = 1
                          /\ last.objects[1].type = last.type
                          /\ last.objects[1].status = "PENDING"

C26_Witness ==
    /\ last.op = "construct" /\ last.type = EMERGENCY_ALERT
    /\ last.content = {"location", "title"}
    /\ last.raised /\ last.objects = <<>>

\* C27: while handle_retry sleeps before a re-attempt, the interval it waits
\* is, for a non-emergency notification, 5 * 2^r seconds for the retry_count
\* r read before the increment, which is the backoff 5 * 2^(retry_count - 1)
\* that increment_retry recorded in the same step; for an emergency
\* notification it is 2.5 s whatever retry_count is. (interval2 counts half
\* seconds.)
C27_BackoffInterval ==
    \A k \in Calls :
        calls[k].pc = "backoff"
        => LET nr == notif[calls[k].n]
           IN  IF nr.type = EMERGENCY_ALERT
               THEN calls[k].interval2 = 5
               ELSE /\ nr.retry_count >= 1
                    /\ calls[k].interval2 = 2 * 5 * (2 ^ (nr.retry_count - 1))
                    /\ calls[k].interval2 = 2 * nr.backoff

\* The second backoff of a send (10 s), and the backoff of handle_retry on
\* an emergency notification with retries behind it.
C27_Witness ==
    /\ calls["a"].op = "send" /\ calls["a"].pc = "backoff"
    /\ calls["a"].retries = 2 /\ calls["a"].interval2 = 20
    /\ notif["n1"].backoff = 10

\* A caller calls update_status on a notification that is DELIVERED.
UpdateDelivered(nid) ==
    /\ notif[nid].status = "DELIVERED"
    /\ \E s \in NotificationStatus : UpdateStatus(nid, s)

\* Every operation that can write a status, on one PUSH notification,
\* ordinary or emergency: the four
\* operations of the orchestrator, fan-outs that return at the deadline with
\* attempts still running, and direct update_status calls once it is
\* DELIVERED.
NextTerminal ==
    \/ NextRouting
    \/ Deadline("a")
    \/ UpdateDelivered("n1")

SpecTerminal == Init /\ [][NextTerminal]_vars

\* C28: once a notification's status is DELIVERED it stays DELIVERED, under
\* every step of every operation.
C28_DeliveredIsTerminal ==
    [][\A nid \in Notifs :
          notif[nid].status = "DELIVERED" => notif'[nid].status = "DELIVERED"]_vars

\* A DELIVERED notification after a rejected direct update_status and a
\* handle_retry call whose FAILED transition was rejected.
C28_Witness ==
    /\ notif["n1"].status = "DELIVERED"
    /\ last.op = "update_status" /\ last.from = "DELIVERED"
    /\ last.to = "PENDING" /\ last.raised
    /\ calls["a"].op = "retry" /\ calls["a"].ret = "InvalidTransition"

\* C29: a step of the attempt handle_channel_delivery(n, c) leaves the
\* failure counter, the health state and the breaker flag of every channel
\* other than c as they were.
C29_OtherChannelsUntouched ==
    [][\A k \in Calls, c \in NotificationChannel :
          AttemptStep(k, c)
          => \A d \in NotificationChannel \ {c} :
                 /\ health'[d] = health[d]
                 /\ breakers'[d] = breakers[d]]_vars

\* A second fan-out in which PUSH succeeded and the two other channels
\* failed again: their counters stand at 2.
C29_Witness ==
    /\ calls["a"].op = "emergency" /\ calls["a"].pc = "done"
    /\ calls["a"].att["PUSH"] = "true"
    /\ calls["a"].att["EMAIL"] = "false" /\ calls["a"].att["SMS"] = "false"
    /\ health["PUSH"].failures = 0
    /\ health["EMAIL"].failures = 2 /\ health["SMS"].failures = 2

\* Direct handle_channel_delivery calls on one notification from two
\* callers, overlapping on any channel.
InitOverlap ==
    InitOf(Fixture({NewNotification("phone", "WALK_SCHEDULED", "EMAIL")}),
           SmsHandlers)

NextOverlap ==
    \/ \E k \in Calls, c \in NotificationChannel : CallDeliver(k, "n1", c)
    \/ \E k \in Calls, c \in NotificationChannel, o \in Outcomes :
           Collaborator(k, c, o)
    \/ \E k \in Calls, t \in {"ok", "raise"} : SmsResume(k, t)

SpecOverlap == InitOverlap /\ [][NextOverlap]_vars

\* The step in which the attempt of call k on channel c calls the channel's
\* collaborator. handle_channel_delivery calls the push and SMS handlers in
\* the step that passes the gate; it calls send_email when it resumes from
\* the sleep(0) that follows the gate.
CollaboratorCalled(k, c) ==
    IF c = "EMAIL"
    THEN \E o \in Outcomes : Collaborator(k, c, o)
    ELSE /\ \E nid \in Notifs : CallDeliver(k, nid, c)
         /\ calls'[k].invoked[c] = 1

\* C30 as stated: with deliveries in flight concurrently on a channel, no
\* call to the channel's collaborator is made while the channel's breaker is
\* open.
C30_NoCallWhileOpen ==
    [][\A k \in Calls, c \in NotificationChannel :
          CollaboratorCalled(k, c) => ~breakers[c].is_open]_vars

FreshSendReturned(k) ==
    /\ calls[k].op = "send" /\ calls[k].pc = "done"
    /\ smsHandler = "contract"
    /\ calls[k].rc0 = 0
    /\ Len(queues[notif[calls[k].n].channel].normal) = 1

\* C32: send_notification on a fresh non-emergency notification, with
\* collaborators that do not write it, ends in one of two states: it
\* returned True and the notification is DELIVERED with retry_count below
\* max_retries, or it returned False and the notification is FAILED with
\* retry_count equal to max_retries.
C32_FreshSendOutcomes ==
    \A k \in Calls :
        FreshSendReturned(k)
        => LET nr == notif[calls[k].n]
           IN  \/ /\ calls[k].ret = "true"
                  /\ nr.status = "DELIVERED"
                  /\ nr.retry_count < nr.max_retries
               \/ /\ calls[k].ret = "false"
                  /\ nr.status = "FAILED"
                  /\ nr.retry_count = nr.max_retries

\* An EMAIL send whose three attempts failed.
C32_Witness ==
    /\ FreshSendReturned("a")
    /\ calls["a"].ret = "false" /\ calls["a"].tried["EMAIL"] = 3
    /\ notif["n1"].status = "FAILED" /\ notif["n1"].retry_count = 3

C34_FailedFanOutLeavesPending ==
    \A k \in Calls :
        (/\ calls[k].op = "emergency" /\ calls[k].pc = "done"
         /\ calls[k].ret = "false"
         /\ Len(queues["EMAIL"].emergency) = 1)
        => /\ notif[calls[k].n].status = "PENDING"
           /\ notif[calls[k].n].retry_count = 0
           /\ \A c \in NotificationChannel :
                  (calls[k].att[c] = "false" /\ calls[k].invoked[c] = 1)
                  => health[c].failures = 1

\* Call k of send_notification or handle_retry is in a backoff wait or in a
\* retry attempt.
Retrying(k) ==
    /\ calls[k].op \in {"send", "retry"}
    /\ calls[k].pc \in {"backoff", "retry"}

\* C35 as stated: a notification handled only by the orchestrator (the SMS
\* sender keeps the deliver contract) is PENDING, DELIVERED or FAILED in
\* every state, and PENDING during every backoff wait and retry attempt.
C35_StatusPendingWhileRetrying ==
    smsHandler = "contract"
    => \A k \in Calls :
           /\ notif["n1"].status \in {"PENDING", "DELIVERED", "FAILED"}
           /\ Retrying(k) => notif[calls[k].n].status = "PENDING"

\* C35, amended: such a notification is PENDING, DELIVERED or FAILED in
\* every state, and PENDING or DELIVERED during every backoff wait and retry
\* attempt (DELIVERED when a notification delivered before is sent again or
\* passed to handle_retry with retries left).
C35_StatusNeverRetryingOrSent ==
    smsHandler = "contract"
    => \A k \in Calls :
           /\ notif["n1"].status \in {"PENDING", "DELIVERED", "FAILED"}
           /\ Retrying(k) => notif[calls[k].n].status \in {"PENDING", "DELIVERED"}

\* The backoff wait of a send of a notification that an earlier send
\* delivered at its first attempt.
C35_Witness ==
    /\ smsHandler = "contract"
    /\ calls["a"].op = "send" /\ calls["a"].pc = "backoff"
    /\ calls["a"].rc0 = 0 /\ notif["n1"].retry_count = 1
    /\ notif["n1"].status = "DELIVERED"

\* C36: with collaborators that do not write the notification, under any
\* sequence of the orchestrator's calls retry_count stays between 0 and
\* max_retries and never decreases, and whenever a re-attempt of handle_retry
\* returns False retry_count is below max_retries, so that the test of
\* step 8 fails and handle_retry goes on to its recursive call.
C36_RetryCountBounded ==
    [][smsHandler = "contract"
       => /\ \A nid \in Notifs :
                /\ notif'[nid].retry_count >= notif[nid].retry_count
                /\ notif'[nid].retry_count >= 0
                /\ notif'[nid].retry_count <= notif'[nid].max_retries
          /\ \A k \in Calls, c \in NotificationChannel :
                (/\ calls[k].pc = "retry"
                 /\ calls[k].att[c] \in Running
                 /\ calls'[k].att[c] = "false")
                => notif[calls[k].n].retry_count
                       < notif[calls[k].n].max_retries]_vars

\* handle_retry called on a PUSH notification whose two retries are used:
\* it returned False at step 1 without an attempt.
C36_Witness ==
    /\ smsHandler = "contract"
    /\ calls["a"].op = "retry" /\ calls["a"].pc = "done"
    /\ calls["a"].ret = "false" /\ calls["a"].rc0 = 2
    /\ notif["n1"].retry_count = 2 /\ notif["n1"].max_retries = 2
    /\ \A c \in NotificationChannel : calls["a"].tried[c] = 0

\* Call k is the first send_notification call on a notification that was
\* new (PENDING, retry_count 0) when the call began.
FreshSend(k) ==
    /\ calls[k].op = "send"
    /\ calls[k].rc0 = 0
    /\ Len(queues[notif[calls[k].n].channel].normal) = 1

\* C37: one send_notification call on a fresh non-emergency notification
\* makes at most max_retries delivery attempts, all on the notification's
\* channel (EMAIL at most 3, PUSH at most 2, SMS 1), and once an attempt has
\* succeeded the call has returned True: the attempts made are the
\* successful one and one for each retry before it, and retry_count is the
\* number of those retries.
C37_AttemptsBounded ==
    \A k \in Calls :
        FreshSend(k)
        => LET nr == notif[calls[k].n]
               ch == nr.channel
           IN  /\ calls[k].tried[ch] <= nr.max_retries
               /\ calls[k].tried[ch] <=
                      (IF ch = "EMAIL" THEN 3 ELSE IF ch = "PUSH" THEN 2 ELSE 1)
               /\ \A c \in NotificationChannel \ {ch} : calls[k].tried[c] = 0
               /\ (ch = "SMS" /\ calls[k].pc = "done") => calls[k].tried[ch] = 1
               /\ calls[k].att[ch] = "true"
                  => /\ calls[k].pc = "done" /\ calls[k].ret = "true"
                     /\ calls[k].retries = calls[k].tried[ch] - 1
                     /\ nr.retry_count = calls[k].tried[ch] - 1

\* A PUSH send that succeeded at its second and last attempt.
C37_Witness ==
    /\ FreshSend("a") /\ notif["n1"].channel = "PUSH"
    /\ calls["a"].pc = "done" /\ calls["a"].ret = "true"
    /\ calls["a"].tried["PUSH"] = 2 /\ notif["n1"].retry_count = 1

\* C38 as stated: in every reachable state, with several deliveries in
\* flight on a channel, the channel's breaker is open if and only if its
\* failure counter is at least the threshold.
C38_OpenIffAtThreshold ==
    \A c \in NotificationChannel :
        breakers[c].is_open <=> health[c].failures >= breakers[c].threshold

\* C38, amended: in every reachable state, with several deliveries in flight
\* on a channel, the breaker is open whenever the failure counter is at
\* least the threshold, and a breaker opens only in a step that brings the
\* counter to the threshold or above. (An open breaker can have a counter
\* below the threshold: an attempt that passed the gate before the breaker
\* opened resets the counter when it succeeds.)
C38_AtThresholdImpliesOpen ==
    [][\A c \in NotificationChannel :
          /\ health'[c].failures >= breakers'[c].threshold
             => breakers'[c].is_open
          /\ (~breakers[c].is_open /\ breakers'[c].is_open)
             => /\ health'[c].failures = health[c].failures + 1
                /\ health'[c].failures >= breakers'[c].threshold]_vars

\* The PUSH breaker open with the counter reset by the success of an
\* attempt that was in flight when the breaker opened.
C38_Witness ==
    /\ breakers["PUSH"].is_open /\ health["PUSH"].failures = 0
    /\ calls["a"].att["PUSH"] = "false" /\ calls["b"].att["PUSH"] = "true"

\* C39: every channel's health state is UP in every reachable state,
\* whatever its failure counter and breaker flag are, so the gate of
\* handle_channel_delivery refuses a channel exactly when its breaker is
\* open.
C39_HealthAlwaysUp ==
    \A c \in NotificationChannel :
        /\ health[c].state = "UP"
        /\ Refused(Machine("n1"), c) <=> breakers[c].is_open

\* A PUSH delivery refused by the open breaker, the channel UP with five
\* failures counted.
C39_Witness ==
    /\ health["PUSH"].state = "UP" /\ health["PUSH"].failures = 5
    /\ breakers["PUSH"].is_open
    /\ calls["b"].op = "deliver" /\ calls["b"].pc = "done"
    /\ calls["b"].tried["PUSH"] = 1 /\ calls["b"].invoked["PUSH"] = 0
    /\ calls["b"].ret = "false"

====
